---- MODULE Spec2Model ----
(***************************************************************************)
(* folders_sync_v1.py: one-way periodic mirroring of a source directory    *)
(* tree onto a replica directory tree.                                     *)
(*                                                                         *)
(* The filesystem is one function from absolute paths to entries; the two  *)
(* trees live under the roots <<"source">> and <<"replica">>.  A path is a *)
(* sequence of segments, os.path.join is concatenation.  synchronize_folders*)
(* is modelled statement by statement: one step per iteration of each loop *)
(* and per resumption of os.walk.                                          *)
(***************************************************************************)
EXTENDS Naturals, Sequences, FiniteSets

\* ------------------------------------------------------------------ bounds

\* Number of distinct file contents (contents are 1..MaxContent).
MaxContent == 2

\* Modification times: every source file carries the time 1, a replica
\* file carries the same time or a newer one.
SourceMtimes == {1}

ReplicaMtimes == {1, 2}

\* ------------------------------------------------------- paths and entries

source_folder == <<"source">>

replica_folder == <<"replica">>

\* Relative paths of the model's universe.  The two top-level names may be
\* absent, a file or a directory; the second-level names absent or a file.
RelPaths == {<<>>, <<"a">>, <<"b">>, <<"a", "a">>, <<"b", "b">>}

DirCapable == {<<>>, <<"a">>, <<"b">>}

AbsPaths == {r \o p : r \in {source_folder, replica_folder}, p \in RelPaths}

NoEntry == [kind |-> "none", content |-> 0, mtime |-> 0]

DirEntry == [kind |-> "dir", content |-> 0, mtime |-> 0]

FileEntry(c, m) == [kind |-> "file", content |-> c, mtime |-> m]

SourceEntries == {NoEntry, DirEntry} \cup {FileEntry(c, m) : c \in 1..MaxContent, m \in SourceMtimes}

ReplicaEntries ==
    {NoEntry, DirEntry} \cup {FileEntry(c, m) : c \in 1..MaxContent, m \in ReplicaMtimes}

Parent(p) == SubSeq(p, 1, Len(p) - 1)

Basename(p) == p[Len(p)]

IsPrefix(p, q) == Len(p) <= Len(q) /\ SubSeq(q, 1, Len(p)) = p

\* A tree over RelPaths: an entry has a directory as parent, and only the
\* directory-capable paths hold directories.
WellFormedTree(t) ==
    \A p \in RelPaths :
        /\ (t[p].kind = "dir" => p \in DirCapable)
        /\ (p # <<>> /\ t[p].kind # "none" => t[Parent(p)].kind = "dir")

\* The source root is absent or a directory.
SourceTrees ==
    {t \in [RelPaths -> SourceEntries] : WellFormedTree(t) /\ t[<<>>].kind # "file"}

\* The replica root is absent, a directory, or (wrongly) a regular file.
ReplicaTrees == {t \in [RelPaths -> ReplicaEntries] : WellFormedTree(t)}

Mount(s, r) ==
    [p \in AbsPaths |->
        IF p[1] = "source" THEN s[Tail(p)] ELSE r[Tail(p)]]

\* The tree under a root, by relative path.
TreeAt(f, root) == [p \in RelPaths |-> f[root \o p]]

\* ---------------------------------------------------- filesystem operations

Lookup(f, p) == IF p \in DOMAIN f THEN f[p] ELSE NoEntry

\* os.path.exists
Exists(f, p) == Lookup(f, p).kind # "none"

\* os.path.isdir
IsDir(f, p) == Lookup(f, p).kind = "dir"

IsFile(f, p) == Lookup(f, p).kind = "file"

\* The result of an operation on path p that may raise: the filesystem it
\* leaves, whether an exception was raised, and the path it wrote to.
Done(f, p) == [fs |-> f, raised |-> FALSE, path |-> p]

Raise(f, p) == [fs |-> f, raised |-> TRUE, path |-> p]

\* os.mkdir: FileExistsError when the path exists, FileNotFoundError /
\* NotADirectoryError when its parent is not a directory.  The parents of
\* the two roots are taken to exist.
mkdir(f, p) ==
    IF Exists(f, p) \/ (Len(p) > 1 /\ ~IsDir(f, Parent(p)))
    THEN Raise(f, p)
    ELSE Done([f EXCEPT ![p] = DirEntry], p)

\* os.makedirs: creates the missing parents first, then the leaf.
RECURSIVE makedirs(_, _)
makedirs(f, p) ==
    LET up == IF Len(p) > 1 /\ ~Exists(f, Parent(p))
              THEN makedirs(f, Parent(p))
              ELSE Done(f, p)
    IN  IF up.raised THEN Raise(up.fs, p) ELSE mkdir(up.fs, p)

\* Where shutil.copy2 writes: into the directory when dst is one.
copy2Target(f, src, dst) == IF IsDir(f, dst) THEN dst \o <<Basename(src)>> ELSE dst

\* shutil.copy2: content and modification time of src written to the target;
\* raises when src is no regular file, when src and the target are the same
\* file, when the target is a directory, or when the target's parent is not
\* a directory.
copy2(f, src, dst) ==
    LET d == copy2Target(f, src, dst)
    IN  IF ~IsFile(f, src) \/ d = src \/ IsDir(f, d) \/ ~IsDir(f, Parent(d))
        THEN Raise(f, d)
        ELSE Done([f EXCEPT ![d] = FileEntry(f[src].content, f[src].mtime)], d)

\* shutil.rmtree emptying the directory and leaving the directory itself.
rmtree_contents_only(f, p) ==
    IF ~IsDir(f, p)
    THEN Raise(f, p)
    ELSE Done([q \in DOMAIN f |-> IF IsPrefix(p, q) /\ q # p THEN NoEntry ELSE f[q]], p)

\* shutil.rmtree: removes the directory and everything below it; raises when
\* the path is not a directory.
rmtree(f, p) ==
    IF ~IsDir(f, p)
    THEN Raise(f, p)
    ELSE Done([q \in DOMAIN f |-> IF IsPrefix(p, q) THEN NoEntry ELSE f[q]], p)

\* os.remove: removes a regular file; raises on a directory or a missing path.
remove(f, p) ==
    IF ~IsFile(f, p) THEN Raise(f, p) ELSE Done([f EXCEPT ![p] = NoEntry], p)

\* hashlib.md5 of a content, and the None that generate_md5_checksum returns
\* implicitly after its except clause.
Md5(c) == [ok |-> TRUE, digest |-> c]

None == [ok |-> FALSE, digest |-> 0]

\* generate_md5_checksum changed to fingerprint the modification time of the
\* file instead of its content.
generate_md5_checksum_of_mtime(f, file, unreadable) ==
    IF unreadable \/ ~IsFile(f, file) THEN None ELSE Md5(f[file].mtime)

\* generate_md5_checksum: the digest of the file's content; when open or
\* read raises (the path is no regular file, or the file is unreadable) the
\* exception is logged inside the function and None is returned.
generate_md5_checksum(f, file, unreadable) ==
    IF unreadable \/ ~IsFile(f, file) THEN None ELSE Md5(f[file].content)

\* os.scandir of a directory: the names of its entries.
Listing(f, dir) ==
    {Basename(q) : q \in {x \in DOMAIN f : Len(x) = Len(dir) + 1
                                            /\ IsPrefix(dir, x)
                                            /\ f[x].kind # "none"}}

\* The orders in which a listing may come back.
Orders(S) ==
    {s \in [1..Cardinality(S) -> S] : \A i, j \in 1..Cardinality(S) : i # j => s[i] # s[j]}

\* os.path.relpath(current_folder, root) for a folder under root.
relpath(folder) == Tail(folder)

\* os.path.join(folder, name)
Join(folder, name) == Append(folder, name)

\* -------------------------------------------------------------------- state

VARIABLES
    fs,          \* the filesystem: absolute path -> entry
    fs0,         \* the filesystem when the running pass was started
    pc,          \* position of the process in main / synchronize_folders
    phase,       \* how far the running pass got: "none", "pass1", "pass2"
    stack,       \* os.walk: directories still to be listed
    cur,         \* current_folder of the walk
    subfolders,  \* the subfolders list os.walk yielded for current_folder
    todo,        \* subfolders the loop of step 4.3 has not reached yet
    files,       \* files the loop of step 3.4 / 4.4 has not reached yet
    ops,         \* filesystem changes made by the running pass, in order
    log,         \* levels of the records logged by the running pass
    cmp,         \* the decisions of line 157 taken by the running pass
    injected,    \* the environment made an operation of the running pass fail
    prevSame,    \* a pass ran before, undisturbed, and the source is as it left it
    exit_code    \* exit status of the process once pc = "exited"

vars == <<fs, fs0, pc, phase, stack, cur, subfolders, todo, files, ops, log, cmp,
          injected, prevSame, exit_code>>

walkVars == <<stack, cur, subfolders, todo, files>>

Source(f) == TreeAt(f, source_folder)

Replica(f) == TreeAt(f, replica_folder)

Op(kind, path) == [op |-> kind, path |-> path]

\* What an operation may do: its own outcome, or raise without changing
\* anything (permission error, transient I/O error).
Outcomes(f, r) == {r, Raise(f, r.path)}

\* An outcome that raised although the operation itself would not have.
Injected(r, own) == r.raised /\ ~own.raised

Init ==
    /\ \E s \in SourceTrees, r \in ReplicaTrees : fs = Mount(s, r)
    /\ fs0 = fs
    /\ pc = "setup"
    /\ phase = "none"
    /\ stack = <<>>
    /\ cur = <<>>
    /\ subfolders = <<>>
    /\ todo = <<>>
    /\ files = <<>>
    /\ ops = <<>>
    /\ log = {}
    /\ cmp = {}
    /\ injected = FALSE
    /\ prevSame = FALSE
    /\ exit_code = 0

\* ------------------------------------------------------------------- main

\* main, lines 226-228: setup_logging returns False when it raised; main
\* then prints and returns, which ends the process with status 0.
SetupLogging ==
    /\ pc = "setup"
    /\ \E ok \in BOOLEAN :
          IF ok
          THEN pc' = "loop" /\ UNCHANGED exit_code
          ELSE pc' = "exited" /\ exit_code' = 0
    /\ UNCHANGED <<fs, fs0, phase, walkVars, ops, log, cmp, injected, prevSame>>

\* The except clause of synchronize_folders (lines 188-189): the error is
\* logged and the function returns to the loop of main.
Abandon(f) ==
    /\ fs' = f
    /\ log' = log \cup {"error"}
    /\ pc' = "returned"

\* The check of line 120 made on the replica folder instead.
SourceFolderExists_on_replica(f) == IsDir(f, replica_folder)

\* Line 120: the source folder is an existing directory.
SourceFolderExists(f) == IsDir(f, source_folder)

\* The check of line 127 made on the source folder instead, which exists at
\* that point.
ReplicaFolderMissing_on_source(f) == ~IsDir(f, source_folder)

\* Line 127: the replica folder is not an existing directory.
ReplicaFolderMissing(f) == ~IsDir(f, replica_folder)

\* Steps 1 and 2 of synchronize_folders (lines 117-134), called by the loop
\* of main (line 238).
StartPass ==
    /\ pc = "loop"
    /\ fs0' = fs
    /\ cmp' = {}
    /\ cur' = <<>> /\ subfolders' = <<>> /\ todo' = <<>> /\ files' = <<>>
    /\ UNCHANGED <<prevSame, exit_code>>
    /\ IF ~SourceFolderExists(fs)
       THEN /\ log' = log \cup {"warning"}
            /\ pc' = "returned"
            /\ phase' = "none"
            /\ stack' = <<>>
            /\ UNCHANGED <<fs, ops, injected>>
       ELSE IF ReplicaFolderMissing(fs)
       THEN \E r \in Outcomes(fs, makedirs(fs, replica_folder)) :
               /\ injected' = Injected(r, makedirs(fs, replica_folder))
               /\ IF r.raised
                  THEN /\ Abandon(r.fs)
                       /\ phase' = "none"
                       /\ stack' = <<>>
                       /\ UNCHANGED ops
                  ELSE /\ fs' = r.fs
                       /\ pc' = "p1walk"
                       /\ phase' = "pass1"
                       /\ stack' = <<source_folder>>
                       /\ ops' = Append(ops, Op("makedirs", r.path))
                       /\ UNCHANGED log
       ELSE /\ pc' = "p1walk"
            /\ phase' = "pass1"
            /\ stack' = <<source_folder>>
            /\ UNCHANGED <<fs, ops, log, injected>>

\* os.walk pushes the subfolders it yielded for the current folder.
Pushed == [i \in 1..Len(subfolders) |-> Join(cur, subfolders[i])] \o stack

\* What os.walk yields for a directory: its subdirectories and its other
\* entries, each in the order scandir returned them.
WalkYields(dir) ==
    LET names == Listing(fs, dir)
        dirs == {n \in names : IsDir(fs, Join(dir, n))}
    IN  {<<d, n>> : d \in Orders(dirs), n \in Orders(names \ dirs)}

\* Lines 152-161 with the loop over the files left after the first file.
P1After_first_only(rest) == "p1walk"

\* Position of pass 1 after step 3.3 or after a file of step 3.4.
P1After(rest) == IF rest = <<>> THEN "p1walk" ELSE "p1file"

\* Position of pass 2 after a subfolder of 4.3 or a file of 4.4.
P2After(restDirs, restFiles) ==
    IF restDirs # <<>> THEN "p2sub" ELSE IF restFiles # <<>> THEN "p2file" ELSE "p2walk"

\* Line 137: os.walk(source_folder) is resumed.  It yields the next
\* directory, skips one it cannot list, or is exhausted, and then the walk
\* of line 164 starts.
P1Walk ==
    /\ pc = "p1walk"
    /\ UNCHANGED <<fs, fs0, ops, log, cmp, injected, prevSame, exit_code>>
    /\ IF Pushed = <<>>
       THEN /\ pc' = "p2walk"
            /\ phase' = "pass2"
            /\ stack' = <<replica_folder>>
            /\ cur' = <<>> /\ subfolders' = <<>> /\ todo' = <<>> /\ files' = <<>>
       ELSE IF ~IsDir(fs, Head(Pushed))
       THEN /\ stack' = Tail(Pushed)
            /\ subfolders' = <<>>
            /\ UNCHANGED <<pc, phase, cur, todo, files>>
       ELSE \E y \in WalkYields(Head(Pushed)) :
               /\ cur' = Head(Pushed)
               /\ stack' = Tail(Pushed)
               /\ subfolders' = y[1]
               /\ files' = y[2]
               /\ pc' = "p1dir"
               /\ UNCHANGED <<phase, todo>>

\* Lines 140-143: the folder of the replica that corresponds to
\* current_folder of the source walk.
TargetFolder(current_folder) == replica_folder \o relpath(current_folder)

\* Steps 3.1-3.3 (lines 140-149): the target folder is created when nothing
\* exists at its path.
P1Dir ==
    /\ pc = "p1dir"
    /\ UNCHANGED <<fs0, phase, walkVars, cmp, prevSame, exit_code>>
    /\ LET target_folder == TargetFolder(cur)
       IN  IF ~Exists(fs, target_folder)
           THEN \E r \in Outcomes(fs, makedirs(fs, target_folder)) :
                   /\ injected' = (injected \/ Injected(r, makedirs(fs, target_folder)))
                   /\ IF r.raised
                      THEN Abandon(r.fs) /\ UNCHANGED ops
                      ELSE /\ fs' = r.fs
                           /\ ops' = Append(ops, Op("makedirs", r.path))
                           /\ pc' = P1After(files)
                           /\ UNCHANGED log
           ELSE /\ pc' = P1After(files)
                /\ UNCHANGED <<fs, ops, log, injected>>

\* The comparison of line 157 on the two hashes.
HashesDiffer(hs, hr) == hs # hr

\* Line 160 left out: nothing is copied.
CopyFile_left_out(f, file_in_source, file_in_replica) == Done(f, file_in_replica)

\* Line 160 with the arguments of shutil.copy2 swapped.
CopyFile_swapped(f, file_in_source, file_in_replica) == copy2(f, file_in_replica, file_in_source)

\* Line 160: the file of the source is copied over the file of the replica.
CopyFile(f, file_in_source, file_in_replica) == copy2(f, file_in_source, file_in_replica)

\* Step 3.4 (lines 152-161) for one file of current_folder.  us and ur say
\* whether the environment makes the source file or the replica file
\* unreadable while it is hashed.
P1File ==
    /\ pc = "p1file"
    /\ UNCHANGED <<fs0, phase, stack, cur, subfolders, todo, prevSame, exit_code>>
    /\ files' = Tail(files)
    /\ LET file == Head(files)
           file_in_source == Join(cur, file)
           file_in_replica == Join(TargetFolder(cur), file)
           missing == ~Exists(fs, file_in_replica)
       IN  \E us, ur \in BOOLEAN :
              LET hs == IF missing THEN None ELSE generate_md5_checksum(fs, file_in_source, us)
                  hr == IF missing THEN None ELSE generate_md5_checksum(fs, file_in_replica, ur)
                  md5log == IF ~missing /\ (hs = None \/ hr = None) THEN {"md5error"} ELSE {}
                  decision(copy) ==
                      [file |-> file_in_source, target |-> file_in_replica,
                       missing |-> missing, hs |-> hs, hr |-> hr,
                       before |-> Lookup(fs, file_in_replica), copy |-> copy]
              IN  /\ (us => ~missing /\ IsFile(fs, file_in_source))
                  /\ (ur => ~missing /\ IsFile(fs, file_in_replica))
                  /\ IF missing \/ HashesDiffer(hs, hr)
                     THEN \E r \in Outcomes(fs, CopyFile(fs, file_in_source, file_in_replica)) :
                             /\ cmp' = cmp \cup {decision(IF r.raised THEN "failed" ELSE "done")}
                             /\ injected' = (injected \/ us \/ ur
                                  \/ Injected(r, CopyFile(fs, file_in_source, file_in_replica)))
                             /\ IF r.raised
                                THEN /\ fs' = r.fs
                                     /\ log' = log \cup md5log \cup {"error"}
                                     /\ pc' = "returned"
                                     /\ UNCHANGED ops
                                ELSE /\ fs' = r.fs
                                     /\ ops' = Append(ops, Op("copy2", r.path))
                                     /\ log' = log \cup md5log
                                     /\ pc' = P1After(Tail(files))
                     ELSE /\ cmp' = cmp \cup {decision("none")}
                          /\ injected' = (injected \/ us \/ ur)
                          /\ log' = log \cup md5log
                          /\ pc' = P1After(Tail(files))
                          /\ UNCHANGED <<fs, ops>>

\* Line 164: os.walk(replica_folder) is resumed.  A directory that shutil.rmtree
\* removed is still in the subfolders list that was yielded, so the walk
\* tries to list it, fails, and goes on (onerror is None).  When the walk is
\* exhausted synchronize_folders returns.
P2Walk ==
    /\ pc = "p2walk"
    /\ UNCHANGED <<fs, fs0, phase, ops, log, cmp, injected, prevSame, exit_code>>
    /\ IF Pushed = <<>>
       THEN /\ pc' = "returned"
            /\ stack' = <<>>
            /\ cur' = <<>> /\ subfolders' = <<>> /\ todo' = <<>> /\ files' = <<>>
       ELSE IF ~IsDir(fs, Head(Pushed))
       THEN /\ stack' = Tail(Pushed)
            /\ subfolders' = <<>>
            /\ UNCHANGED <<pc, cur, todo, files>>
       ELSE \E y \in WalkYields(Head(Pushed)) :
               /\ cur' = Head(Pushed)
               /\ stack' = Tail(Pushed)
               /\ subfolders' = y[1]
               /\ todo' = y[1]
               /\ files' = y[2]
               /\ pc' = P2After(y[1], y[2])

\* Lines 167-170: the folder of the source that corresponds to
\* current_folder of the replica walk.
OriginalFolder(current_folder) == source_folder \o relpath(current_folder)

\* Lines 175 and 183: the entry is deleted when nothing exists at the
\* corresponding path of the source.
AbsentInSource(f, original_path) == ~Exists(f, original_path)

\* Step 4.3 (lines 173-178) for one subfolder of current_folder.
P2Subfolder ==
    /\ pc = "p2sub"
    /\ UNCHANGED <<fs0, phase, stack, cur, subfolders, files, cmp, prevSame, exit_code>>
    /\ todo' = Tail(todo)
    /\ LET subfolder == Head(todo)
           target_subfolder == Join(cur, subfolder)
       IN  IF AbsentInSource(fs, Join(OriginalFolder(cur), subfolder))
           THEN \E r \in Outcomes(fs, rmtree(fs, target_subfolder)) :
                   /\ injected' = (injected \/ Injected(r, rmtree(fs, target_subfolder)))
                   /\ IF r.raised
                      THEN Abandon(r.fs) /\ UNCHANGED ops
                      ELSE /\ fs' = r.fs
                           /\ ops' = Append(ops, Op("rmtree", r.path))
                           /\ pc' = P2After(Tail(todo), files)
                           /\ UNCHANGED log
           ELSE /\ pc' = P2After(Tail(todo), files)
                /\ UNCHANGED <<fs, ops, log, injected>>

\* Step 4.4 (lines 181-186) for one file of current_folder.
P2File ==
    /\ pc = "p2file"
    /\ UNCHANGED <<fs0, phase, stack, cur, subfolders, todo, cmp, prevSame, exit_code>>
    /\ files' = Tail(files)
    /\ LET file == Head(files)
           target_file == Join(cur, file)
       IN  IF AbsentInSource(fs, Join(OriginalFolder(cur), file))
           THEN \E r \in Outcomes(fs, remove(fs, target_file)) :
                   /\ injected' = (injected \/ Injected(r, remove(fs, target_file)))
                   /\ IF r.raised
                      THEN Abandon(r.fs) /\ UNCHANGED ops
                      ELSE /\ fs' = r.fs
                           /\ ops' = Append(ops, Op("remove", r.path))
                           /\ pc' = P2After(<<>>, Tail(files))
                           /\ UNCHANGED log
           ELSE /\ pc' = P2After(<<>>, Tail(files))
                /\ UNCHANGED <<fs, ops, log, injected>>

\* Lines 239-242: synchronize_folders has returned; main logs the end of the
\* pass, sleeps and loops.  The records of the pass are dropped here.
MainSleep ==
    /\ pc = "returned"
    /\ pc' = "loop"
    /\ prevSame' = ~injected
    /\ fs0' = fs
    /\ phase' = "none"
    /\ stack' = <<>> /\ cur' = <<>> /\ subfolders' = <<>> /\ todo' = <<>> /\ files' = <<>>
    /\ ops' = <<>>
    /\ log' = {}
    /\ cmp' = {}
    /\ injected' = FALSE
    /\ UNCHANGED <<fs, exit_code>>

\* The environment changes the source tree while the process sleeps.
SourceChanges ==
    /\ pc = "loop"
    /\ \E s \in SourceTrees :
          /\ s # Source(fs)
          /\ fs' = Mount(s, Replica(fs))
    /\ fs0' = fs'
    /\ prevSame' = FALSE
    /\ UNCHANGED <<pc, phase, walkVars, ops, log, cmp, injected, exit_code>>

Next ==
    \/ SetupLogging
    \/ StartPass
    \/ P1Walk
    \/ P1Dir
    \/ P1File
    \/ P2Walk
    \/ P2Subfolder
    \/ P2File
    \/ MainSleep
    \/ SourceChanges

Spec == Init /\ [][Next]_vars

\* A step of the program in an environment that has come to rest: no
\* operation is made to fail.
Calm(A) == A /\ ~injected'

\* The program with the source tree left alone and no operation failing.
Quiet ==
    \/ Calm(SetupLogging)
    \/ Calm(StartPass)
    \/ Calm(P1Walk)
    \/ Calm(P1Dir)
    \/ Calm(P1File)
    \/ Calm(P2Walk)
    \/ Calm(P2Subfolder)
    \/ Calm(P2File)
    \/ Calm(MainSleep)

\* The loop of main (lines 235-242) is one sequential thread: every call it
\* makes returns, and time.sleep returns, so the program always takes its
\* next step.
SpecQuiet == Init /\ [][Quiet]_vars /\ WF_vars(Quiet)

\* ------------------------------------------------------------ type invariant

InPass == pc \in {"p1walk", "p1dir", "p1file", "p2walk", "p2sub", "p2file"}

TypeOK ==
    /\ fs \in [AbsPaths -> ReplicaEntries]
    /\ WellFormedTree(Source(fs))
    /\ WellFormedTree(Replica(fs))
    /\ pc \in {"setup", "exited", "loop", "returned"} \/ InPass
    /\ phase \in {"none", "pass1", "pass2"}
    /\ log \subseteq {"warning", "error", "md5error"}
    /\ \A i \in 1..Len(ops) : ops[i].path \in AbsPaths
    /\ \A i \in 1..Len(stack) : stack[i] \in AbsPaths
    /\ cur \in AbsPaths \cup {<<>>}

\* ------------------------------------------------------------------ claims

SubPaths == RelPaths \ {<<>>}

S(f, p) == f[source_folder \o p]

R(f, p) == f[replica_folder \o p]

\* The replica mirrors the source: same paths, same kinds, same contents.
Mirrors(f) ==
    /\ IsDir(f, replica_folder)
    /\ \A p \in SubPaths :
          /\ S(f, p).kind = R(f, p).kind
          /\ S(f, p).content = R(f, p).content

PassReturned == pc = "returned"

\* The pass was started on an existing source folder and on a replica
\* folder that was a directory or did not exist; the environment made no
\* operation of the pass fail.
Undisturbed == IsDir(fs0, source_folder) /\ R(fs0, <<>>).kind # "file" /\ ~injected

IsDelete(o) == o.op \in {"rmtree", "remove"}

IsCreate(o) == o.op \in {"makedirs", "copy2"}

\* C1: after one undisturbed call of synchronize_folders on an existing
\* source, which returned without logging an error, the replica mirrors the
\* source, whatever the replica held before.
C1_Convergence ==
    (PassReturned /\ Undisturbed /\ "error" \notin log) => Mirrors(fs)

\* C2: after one undisturbed pass on an existing source, no path that was in
\* the replica and not in the source at the start of the pass is left.
C2_DeletionCorrectness ==
    (PassReturned /\ Undisturbed)
        => \A p \in SubPaths :
              (R(fs0, p).kind # "none" /\ S(fs0, p).kind = "none") => R(fs, p).kind = "none"

\* A decision of line 157 on a regular file of the replica, with both
\* fingerprints computed.
Compared(d) == ~d.missing /\ d.before.kind = "file" /\ d.hs.ok /\ d.hr.ok

C4_NoSourceMutation ==
    /\ Source(fs) = Source(fs0)
    /\ \A i \in 1..Len(ops) : IsPrefix(replica_folder, ops[i].path)

\* Witness of C4: a pass that copied, deleted and was then abandoned.
C4_Witness ==
    /\ PassReturned
    /\ "error" \in log
    /\ \E i, j \in 1..Len(ops) : ops[i].op = "copy2" /\ IsDelete(ops[j])

\* C5: a pass that follows an undisturbed pass on the same source, and that
\* is undisturbed and returns without logging an error itself, changes
\* nothing in the replica.
C5_Idempotence ==
    (PassReturned /\ prevSame /\ Undisturbed /\ "error" \notin log) => ops = <<>>

\* C6: when the source folder is no existing directory the pass logs a
\* warning and returns; the replica is untouched and its root not created.
C6_MissingSource ==
    (~IsDir(fs0, source_folder) /\ (InPass \/ PassReturned))
        => /\ PassReturned
           /\ log = {"warning"}
           /\ fs = fs0
           /\ ops = <<>>

\* Witness of C6: a pass returned on a missing source, the replica holding
\* files.
C6_Witness ==
    /\ PassReturned
    /\ ~IsDir(fs0, source_folder)
    /\ \E p \in SubPaths : R(fs, p).kind = "file"

\* C7: when the source exists and the replica root does not, the root is
\* created before the walk of the source starts, and an undisturbed pass
\* ends with the replica mirroring the source.
C7_MissingReplicaRoot ==
    (IsDir(fs0, source_folder) /\ ~Exists(fs0, replica_folder))
        => /\ InPass => (IsDir(fs, replica_folder) /\ ops[1] = Op("makedirs", replica_folder))
           /\ (PassReturned /\ ~injected) => (Mirrors(fs) /\ log = {})

\* Witness of C7: the pass ended on a replica that did not exist, and the
\* replica now holds a file in a subfolder.
C7_Witness ==
    /\ PassReturned
    /\ IsDir(fs0, source_folder) /\ ~Exists(fs0, replica_folder)
    /\ Mirrors(fs)
    /\ R(fs, <<"a", "a">>).kind = "file"

\* C8: once an error of a filesystem operation (directory creation,
\* hashing, copy, delete) is logged, the pass is abandoned and control is
\* back in the loop of main.
C8_FailureContainment ==
    (log \cap {"error", "md5error"} # {}) => PassReturned

\* C9: no deletion before pass 1 has ended, every create or copy precedes
\* every delete, and the content of a file renamed in the source is, during
\* the whole pass, in the replica under the old or under the new name.
C9_PropagateBeforePrune ==
    /\ \A i \in 1..Len(ops) : IsDelete(ops[i]) => phase = "pass2"
    /\ \A i, j \in 1..Len(ops) : (i < j /\ IsDelete(ops[i])) => ~IsCreate(ops[j])
    /\ \A old, new \in SubPaths :
          ( /\ InPass \/ PassReturned
            /\ Undisturbed
            /\ old # new
            /\ Parent(old) = Parent(new)
            /\ S(fs0, old).kind = "none"
            /\ S(fs0, new).kind = "file"
            /\ R(fs0, old).kind = "file"
            /\ R(fs0, old).content = S(fs0, new).content )
          => \E p \in {old, new} :
                R(fs, p).kind = "file" /\ R(fs, p).content = S(fs0, new).content

\* C10: a fingerprint that cannot be computed reaches synchronize_folders as
\* an error: the pass is abandoned, and the file is neither copied nor taken
\* as unchanged on the basis of the failed fingerprint.
C10_FingerprintFailure ==
    \A d \in cmp :
        (~d.missing /\ (~d.hs.ok \/ ~d.hr.ok))
            => (d.copy = "none" /\ "error" \in log /\ PassReturned)

\* C11: when the log file cannot be set up, the process ends with a status
\* other than zero, and no pass was started: no operation was made and both
\* trees are what they were.
C11_SetupFailure ==
    pc = "exited"
        => /\ exit_code # 0
           /\ phase = "none"
           /\ ops = <<>>
           /\ fs = fs0

\* The kind of entry an operation of pass 2 deletes.
DeletedKind(o) == IF o.op = "rmtree" THEN "dir" ELSE "file"

\* C12: in pass 2 a replica entry is deleted if and only if the source has
\* no entry of the same kind at the same relative path: every deleted entry
\* had none, and after an undisturbed pass that logged no error no replica
\* entry is left whose kind is not the kind of the source entry.
C12_KindAwarePruning ==
    /\ \A i \in 1..Len(ops) :
          IsDelete(ops[i]) => S(fs0, relpath(ops[i].path)).kind # DeletedKind(ops[i])
    /\ (PassReturned /\ Undisturbed /\ "error" \notin log)
          => \A p \in SubPaths :
                R(fs, p).kind # "none" => R(fs, p).kind = S(fs, p).kind

\* C13: whenever pass 1 is at a file of the source, about to compare it with
\* or copy it to its path in the replica, the folder of that path is a
\* directory of the replica, whatever the replica held at the start.
C13_ParentBeforeChild ==
    (pc = "p1file" /\ Undisturbed) => IsDir(fs, TargetFolder(cur))

\* A decision of line 157 for which a fingerprint could not be computed.
HashFailed(d) == ~d.missing /\ (~d.hs.ok \/ ~d.hr.ok)

\* Every file of the source was taken through line 157, and no entry is
\* left in the replica at a path where the source has none.
AllProcessed ==
    /\ \A p \in SubPaths :
          S(fs, p).kind = "file" => \E d \in cmp : d.file = source_folder \o p
    /\ \A p \in SubPaths :
          R(fs, p).kind # "none" => S(fs, p).kind # "none"

C15_SelfHealing ==
    /\ (pc = "loop" /\ IsDir(fs, source_folder) /\ R(fs, <<>>).kind # "file")
          ~> (PassReturned /\ Mirrors(fs))
    /\ []((PassReturned /\ Mirrors(fs)) => [](PassReturned => Mirrors(fs)))

\* The directory of operation o was removed by shutil.rmtree and p is that
\* directory or a path below it.
RemovedAbove(o, p) == o.op = "rmtree" /\ IsPrefix(o.path, p)

\* C16 as stated: once pass 2 has removed a directory of the replica, it is
\* no longer among the directories the walk of the replica has still to
\* visit (the removed directory is taken off the pending list), so the walk
\* never tries to visit it or anything below it.
C16_NoDescentIntoDeleted ==
    phase = "pass2"
        => \A i \in 1..Len(ops), k \in 1..Len(Pushed) : ~RemovedAbove(ops[i], Pushed[k])

\* C16, amended: once pass 2 has removed a directory of the replica, the
\* walk never yields it or a directory below it as current folder, and no
\* later operation of the pass is made on a path at or below it.
C16_NoVisitOfDeleted ==
    phase = "pass2"
        => \A i \in 1..Len(ops) :
              /\ ~RemovedAbove(ops[i], cur)
              /\ \A j \in (i + 1)..Len(ops) : ~RemovedAbove(ops[i], ops[j].path)

\* Witness of C16: pass 2 removed the directory a of the replica root, which
\* stayed in the subfolders list of the walk, and the walk went on to the
\* directory b and deleted a file there; the pass has returned.
C16_Witness ==
    /\ PassReturned
    /\ "error" \notin log
    /\ \E i, j \in 1..Len(ops) :
          /\ ops[i] = Op("rmtree", Join(replica_folder, "a"))
          /\ ops[j] = Op("remove", Join(Join(replica_folder, "b"), "b"))
          /\ i < j

\* A listing in the order of the names.
ByName(names) == SelectSeq(<<"a", "b">>, LAMBDA n : n \in names)

\* The paths of the entries of dir with the given names, in that order.
Children(dir, names) == [i \in 1..Len(names) |-> Join(dir, names[i])]

\* Lines 152-161 for the files of current_folder in the order given, no
\* operation being made to fail by the environment.
RECURSIVE CopyFiles(_, _, _)
CopyFiles(f, current_folder, files_left) ==
    IF files_left = <<>>
    THEN Done(f, current_folder)
    ELSE LET file_in_source == Join(current_folder, Head(files_left))
             file_in_replica == Join(TargetFolder(current_folder), Head(files_left))
             stale == \/ ~Exists(f, file_in_replica)
                      \/ HashesDiffer(generate_md5_checksum(f, file_in_source, FALSE),
                                      generate_md5_checksum(f, file_in_replica, FALSE))
             copied == IF stale
                       THEN CopyFile(f, file_in_source, file_in_replica)
                       ELSE Done(f, file_in_replica)
         IN  IF copied.raised
             THEN copied
             ELSE CopyFiles(copied.fs, current_folder, Tail(files_left))

\* Lines 137-161: the walk of the source, each listing taken in the order of
\* the names; pending holds the directories os.walk has still to visit.
RECURSIVE WalkSource(_, _)
WalkSource(f, pending) ==
    IF pending = <<>>
    THEN Done(f, source_folder)
    ELSE LET current_folder == Head(pending)
             names == Listing(f, current_folder)
             dirs == {n \in names : IsDir(f, Join(current_folder, n))}
             made == IF ~Exists(f, TargetFolder(current_folder))
                     THEN makedirs(f, TargetFolder(current_folder))
                     ELSE Done(f, TargetFolder(current_folder))
             copied == IF made.raised
                       THEN made
                       ELSE CopyFiles(made.fs, current_folder, ByName(names \ dirs))
         IN  IF ~IsDir(f, current_folder)
             THEN WalkSource(f, Tail(pending))
             ELSE IF copied.raised
             THEN copied
             ELSE WalkSource(copied.fs,
                             Children(current_folder, ByName(dirs)) \o Tail(pending))

\* Lines 173-178 (folders) and 181-186 (files) for the entries of
\* current_folder in the order given.
RECURSIVE Prune(_, _, _, _)
Prune(f, current_folder, left, folders) ==
    IF left = <<>>
    THEN Done(f, current_folder)
    ELSE LET target == Join(current_folder, Head(left))
             deleted == IF ~AbsentInSource(f, Join(OriginalFolder(current_folder), Head(left)))
                        THEN Done(f, target)
                        ELSE IF folders THEN rmtree(f, target) ELSE remove(f, target)
         IN  IF deleted.raised
             THEN deleted
             ELSE Prune(deleted.fs, current_folder, Tail(left), folders)

\* Lines 164-186: the walk of the replica, each listing taken in the order
\* of the names.
RECURSIVE WalkReplica(_, _)
WalkReplica(f, pending) ==
    IF pending = <<>>
    THEN Done(f, replica_folder)
    ELSE LET current_folder == Head(pending)
             names == Listing(f, current_folder)
             dirs == {n \in names : IsDir(f, Join(current_folder, n))}
             folders == Prune(f, current_folder, ByName(dirs), TRUE)
             pruned == IF folders.raised
                       THEN folders
                       ELSE Prune(folders.fs, current_folder, ByName(names \ dirs), FALSE)
         IN  IF ~IsDir(f, current_folder)
             THEN WalkReplica(f, Tail(pending))
             ELSE IF pruned.raised
             THEN pruned
             ELSE WalkReplica(pruned.fs,
                              Children(current_folder, ByName(dirs)) \o Tail(pending))

\* synchronize_folders as a function of the filesystem it is called on, with
\* every listing of os.walk in the order of the names and no operation made
\* to fail by the environment: the filesystem when the call returns.
synchronize_folders(f) ==
    LET root == IF ReplicaFolderMissing(f)
                THEN makedirs(f, replica_folder)
                ELSE Done(f, replica_folder)
        pass1 == IF root.raised THEN root ELSE WalkSource(root.fs, <<source_folder>>)
        pass2 == IF pass1.raised THEN pass1 ELSE WalkReplica(pass1.fs, <<replica_folder>>)
    IN  IF ~SourceFolderExists(f) THEN f ELSE pass2.fs

\* C17: the replica a pass ends with does not depend on the order in which
\* os.walk lists siblings: whatever the orders of the listings, a pass no
\* operation of which the environment made fail ends with the filesystem
\* that the pass with every listing in the order of the names ends with.
C17_OrderIndependence ==
    (PassReturned /\ ~injected) => fs = synchronize_folders(fs0)

\* C18: a pass never deletes an entry of the replica whose relative path
\* exists in the source, never deletes the replica root, and never changes
\* a file of the replica whose content is the content of the source file at
\* the same relative path.
C18_NoLossOfMirroredData ==
    (InPass \/ PassReturned)
        => /\ \A i \in 1..Len(ops) :
                 IsDelete(ops[i])
                     => /\ S(fs0, relpath(ops[i].path)).kind = "none"
                        /\ ops[i].path # replica_folder
           /\ \A p \in RelPaths :
                 (R(fs0, p).kind # "none" /\ S(fs0, p).kind # "none") => R(fs, p).kind # "none"
           /\ \A p \in SubPaths :
                 ( /\ S(fs0, p).kind = "file"
                   /\ R(fs0, p).kind = "file"
                   /\ S(fs0, p).content = R(fs0, p).content )
                 => R(fs, p) = R(fs0, p)

\* The relative paths at which the replica of f holds an entry.
ReplicaPaths(f) == {p \in RelPaths : R(f, p).kind # "none"}

\* C19: pass 1 makes no deletion and the set of relative paths of the
\* replica never shrinks during it, also when the pass is abandoned in it;
\* and when pass 1 has ended without error, every relative path of the
\* source exists in the replica.
C19_Pass1OnlyAdds ==
    /\ phase = "pass1"
          => /\ ReplicaPaths(fs0) \subseteq ReplicaPaths(fs)
             /\ \A i \in 1..Len(ops) : ~IsDelete(ops[i])
    /\ (phase = "pass2" /\ \A i \in 1..Len(ops) : ~IsDelete(ops[i]))
          => \A p \in RelPaths : S(fs, p).kind # "none" => R(fs, p).kind # "none"

\* Witness of C19: pass 1 copied a file and was then abandoned, on a replica
\* that held an entry at a path absent from the source, which is still there.
C19_Witness ==
    /\ PassReturned
    /\ phase = "pass1"
    /\ "error" \in log
    /\ \E i \in 1..Len(ops) : ops[i].op = "copy2"
    /\ \E p \in SubPaths :
          S(fs0, p).kind = "none" /\ R(fs0, p).kind = "file" /\ R(fs, p) = R(fs0, p)

====
